---- MODULE Spec2Model ----
(***************************************************************************)
(* Model of rez-bootstrap's src/rust/src/main.rs: classification of the    *)
(* release assets by file name (parse_asset), grouping of the "full"       *)
(* archives, selection of the best full archive for every install_only     *)
(* archive, and the streamed extraction of python/PYTHON.json with at most *)
(* 20 extractions in flight (buffer_unordered).                            *)
(*                                                                         *)
(* A file name is a sequence of tokens: a maximal run of word characters   *)
(* is one token, "-", "+" are tokens, a version such as "3.11.1" is one    *)
(* token that is no word (it holds dots), and the trailing extension       *)
(* (".tar.gz", ".tar.zst", ".tar.gz.sha256") is one token.  A capture of   *)
(* a regex is the subsequence of tokens it covers.                         *)
(***************************************************************************)
EXTENDS Integers, Sequences, FiniteSets, Bags, TLC

(***************************************************************************)
(* Bounds of the model.                                                    *)
(***************************************************************************)
\* longest short listing
MaxAssets == 3
\* install_only assets beyond the buffer limit in the long listing
MaxExtra == 1
\* archive entries an extraction reads from one response in a run
MaxEntries == 1
\* longest archive handed to read_info_json_entry on its own
MaxArchive == 3

(***************************************************************************)
(* Tokens and the regexes of parse_asset.                                  *)
(***************************************************************************)
\* tokens that are exactly 8 digits (\d{8})
Digits8 == {"20230101", "20230116"}

\* tokens made of word characters only (\w+ and [a-zA-Z0-9_]+; all ASCII)
WordTokens ==
    Digits8 \cup {"cpython", "x86_64", "aarch64", "linux", "darwin", "install_only", "full",
                  "debug", "pgo", "lto", "noopt", "freethreaded"}

SubSeqFrom(t, a, b) == IF a > b THEN <<>> ELSE SubSeq(t, a, b)

\* asset.name.ends_with(".tar.zst") || asset.name.ends_with(".tar.gz")
EndsWithArchiveSuffix_zst_only(name) ==
    Len(name) >= 1 /\ name[Len(name)] = ".tar.zst"

EndsWithArchiveSuffix(name) ==
    Len(name) >= 1 /\ name[Len(name)] \in {".tar.zst", ".tar.gz"}

\* (?:-?[a-zA-Z0-9_])+ : word runs, each optionally preceded by one dash
TripleMatches(s) ==
    /\ Len(s) >= 1
    /\ s[Len(s)] \in WordTokens
    /\ \A k \in 1..Len(s) :
          \/ s[k] \in WordTokens
          \/ s[k] = "-" /\ k < Len(s) /\ s[k + 1] \in WordTokens

\* debug|pgo\+lto|lto|noopt|pgo
ConfigMatches_any_word(c) ==
    Len(c) = 1 /\ c[1] \in WordTokens

ConfigMatches(c) ==
    c \in {<<"debug">>, <<"pgo", "+", "lto">>, <<"lto">>, <<"noopt">>, <<"pgo">>}

\* ^(\w+)-(.*)\+(\d{8})- : the positions p of the "+" that can end the version
PrefixMatches(t, p) ==
    /\ Len(t) >= 1 /\ t[1] \in WordTokens
    /\ Len(t) >= 2 /\ t[2] = "-"
    /\ p >= 3 /\ p + 2 <= Len(t)
    /\ t[p] = "+"
    /\ t[p + 1] \in Digits8
    /\ t[p + 2] = "-"

\* INSTALL_ONLY_RE with the version ending at the "+" at position p
InstallOnlyMatchAt(t, p) ==
    LET n == Len(t) IN
    /\ PrefixMatches(t, p)
    /\ n - 3 >= p + 3
    /\ TripleMatches(SubSeqFrom(t, p + 3, n - 3))
    /\ t[n - 2] = "-"
    /\ t[n - 1] = "install_only"
    /\ t[n] = ".tar.gz"

\* the length of the config capture when FULL_RE matches with the "+" at p
FullConfigLens(t, p) ==
    LET n == Len(t) IN
    { l \in {1, 3} :
        /\ PrefixMatches(t, p)
        /\ n - 3 - l - 1 >= p + 3
        /\ TripleMatches(SubSeqFrom(t, p + 3, n - 3 - l - 1))
        /\ t[n - 3 - l] = "-"
        /\ ConfigMatches(SubSeqFrom(t, n - 2 - l, n - 3))
        /\ t[n - 2] = "-"
        /\ t[n - 1] = "full"
        /\ t[n] = ".tar.zst" }

FullMatchAt(t, p) == FullConfigLens(t, p) # {}

\* .* is greedy: the last "+" for which the rest of the regex matches
Greedy(S) == CHOOSE p \in S : \A q \in S : q <= p

None == <<>>
Some(x) == <<x>>

Err(name) == [ok |-> FALSE, name |-> name]

\* fn parse_asset(asset) -> anyhow::Result<Interpreter>
parse_asset(asset) ==
    LET t == asset.name
        n == Len(t)
        io == { p \in 1..n : InstallOnlyMatchAt(t, p) }
        fu == { p \in 1..n : FullMatchAt(t, p) }
    IN  IF io # {}
        THEN LET p == Greedy(io) IN
             [ok |-> TRUE,
              value |-> [implementation |-> SubSeq(t, 1, 1),
                         python_version |-> SubSeqFrom(t, 3, p - 1),
                         github_release |-> SubSeq(t, p + 1, p + 1),
                         triple |-> SubSeqFrom(t, p + 3, n - 3),
                         config |-> <<>>,
                         flavor |-> "InstallOnly",
                         url |-> asset.browser_download_url,
                         info |-> None,
                         interpreter_implemented |-> None]]
        ELSE IF fu # {}
        THEN LET p == Greedy(fu)
                 l == CHOOSE x \in FullConfigLens(t, p) : TRUE
             IN
             [ok |-> TRUE,
              value |-> [implementation |-> SubSeq(t, 1, 1),
                         python_version |-> SubSeqFrom(t, 3, p - 1),
                         github_release |-> SubSeq(t, p + 1, p + 1),
                         triple |-> SubSeqFrom(t, p + 3, n - 3 - l - 1),
                         config |-> SubSeqFrom(t, n - 2 - l, n - 3),
                         flavor |-> "Full",
                         url |-> asset.browser_download_url,
                         info |-> None,
                         interpreter_implemented |-> None]]
        ELSE Err(t)

\* struct GroupKey built from an interpreter (main, lines 161-166 and 192-197)
GroupKey_without_triple(interpreter) ==
    [implementation |-> interpreter.implementation,
     python_version |-> interpreter.python_version,
     github_release |-> interpreter.github_release]

GroupKey(interpreter) ==
    [implementation |-> interpreter.implementation,
     python_version |-> interpreter.python_version,
     github_release |-> interpreter.github_release,
     triple |-> interpreter.triple]

(***************************************************************************)
(* Ranking.  enum ConfigOrder derives Ord: PgoLto < Pgo < Lto < Noopt <    *)
(* None < Debug; -1 stands for the Err of an unknown config.               *)
(***************************************************************************)
get_config_order_lto_first(config) ==
    CASE config = <<"pgo", "+", "lto">> -> 0
      [] config = <<"lto">> -> 1
      [] config = <<"pgo">> -> 2
      [] config = <<"noopt">> -> 3
      [] config = <<>> -> 4
      [] config = <<"debug">> -> 5
      [] OTHER -> -1

get_config_order(config) ==
    CASE config = <<"pgo", "+", "lto">> -> 0
      [] config = <<"pgo">> -> 1
      [] config = <<"lto">> -> 2
      [] config = <<"noopt">> -> 3
      [] config = <<>> -> 4
      [] config = <<"debug">> -> 5
      [] OTHER -> -1

\* insert x after the elements of the sorted s that do not order after it
RECURSIVE InsertSorted(_, _)
InsertSorted(s, x) ==
    IF s = <<>> THEN <<x>>
    ELSE IF get_config_order(x.config) < get_config_order(s[Len(s)].config)
    THEN Append(InsertSorted(SubSeqFrom(s, 1, Len(s) - 1), x), s[Len(s)])
    ELSE Append(s, x)

\* value.sort_by(|a, b| order_a.cmp(&order_b)) : a stable sort
RECURSIVE sort_by(_)
sort_by(s) ==
    IF s = <<>> THEN <<>>
    ELSE InsertSorted(sort_by(SubSeqFrom(s, 1, Len(s) - 1)), s[Len(s)])

\* the comparator unwraps get_config_order of both operands: it panics on an
\* unknown config as soon as the slice holds two elements
SortPanics(s) ==
    Len(s) >= 2 /\ \E k \in 1..Len(s) : get_config_order(s[k].config) = -1

(***************************************************************************)
(* The release listing (GitHubRelease.assets).                             *)
(***************************************************************************)
Name(triple, tail) ==
    <<"cpython", "-", "3.11.1", "+", "20230101", "-">> \o triple \o <<"-">> \o tail

LinuxTriple == <<"x86_64", "-", "linux">>
DarwinTriple == <<"aarch64", "-", "darwin">>

Asset(name, url) == [name |-> name, browser_download_url |-> url]

IoLinux == Asset(Name(LinuxTriple, <<"install_only", ".tar.gz">>), "url/linux-install_only")
PgoLinux == Asset(Name(LinuxTriple, <<"pgo", "-", "full", ".tar.zst">>), "url/linux-pgo")
LtoLinux == Asset(Name(LinuxTriple, <<"lto", "-", "full", ".tar.zst">>), "url/linux-lto")
PgoLtoLinux ==
    Asset(Name(LinuxTriple, <<"pgo", "+", "lto", "-", "full", ".tar.zst">>), "url/linux-pgo+lto")
IoDarwin == Asset(Name(DarwinTriple, <<"install_only", ".tar.gz">>), "url/darwin-install_only")
DebugDarwin == Asset(Name(DarwinTriple, <<"debug", "-", "full", ".tar.zst">>), "url/darwin-debug")
\* an archive whose build configuration is outside the alternation of FULL_RE
FreeThreadedLinux ==
    Asset(Name(LinuxTriple, <<"freethreaded", "-", "full", ".tar.zst">>), "url/linux-freethreaded")
\* a full archive compressed with gzip: FULL_RE only knows .tar.zst
PgoLinuxGz == Asset(Name(LinuxTriple, <<"pgo", "-", "full", ".tar.gz">>), "url/linux-pgo-gz")
\* a checksum file: no archive suffix
ShaLinux ==
    Asset(Name(LinuxTriple, <<"install_only", ".tar.gz.sha256">>), "url/linux-install_only-sha256")

Assets ==
    {IoLinux, PgoLinux, LtoLinux, PgoLtoLinux, IoDarwin, DebugDarwin,
     FreeThreadedLinux, PgoLinuxGz, ShaLinux}

\* .buffer_unordered(20)
BufferLimit == 20

ShortListings == UNION { [1..n -> Assets] : n \in 0..MaxAssets }

\* one full archive followed by more install_only assets than the buffer holds
LongListing ==
    [k \in 1..(BufferLimit + MaxExtra + 1) |-> IF k = 1 THEN PgoLinux ELSE IoLinux]

Listings == ShortListings \cup {LongListing}

(***************************************************************************)
(* What a response stream yields to the tar reader: an entry (its path and *)
(* its payload) or an I/O error.                                           *)
(***************************************************************************)
TargetPath == "python/PYTHON.json"

Paths == {TargetPath, "python/PYTHON.json.orig", "python/install/bin/python3"}

\* "{}" is a document with both optional fields absent
Payloads == {"{}", "<html>"}

Entry(path, payload) == [kind |-> "entry", path |-> path, payload |-> payload]

IoError == [kind |-> "error", path |-> "", payload |-> ""]

StreamItems ==
    { Entry(TargetPath, p) : p \in Payloads }
        \cup { Entry(q, "") : q \in Paths \ {TargetPath} }
        \cup {IoError}

\* serde_json::from_str::<PythonJSON>(&buffer) succeeds
from_str(buffer) == buffer = "{}"

\* pathstr == "python/PYTHON.json"
PathMatches_prefix(pathstr) == pathstr \in {TargetPath, "python/PYTHON.json.orig"}

PathMatches(pathstr) == pathstr = TargetPath

\* one iteration of the while loop of read_info_json_entry on the next item
ExamineEntry(item) ==
    IF item.kind = "error" THEN "panic_entry"
    ELSE IF PathMatches(item.path)
    THEN IF from_str(item.payload) THEN "Ok" ELSE "panic_json"
    ELSE "next"

(***************************************************************************)
(* State of one run of main, and of one call of read_info_json_entry.      *)
(***************************************************************************)
VARIABLES
    assets,                     \* release.assets
    pc,                         \* where main is
    asset_idx,                  \* position of the loop over release.assets
    install_only_interpreters,  \* Vec<Interpreter>
    groups,                     \* HashMap<GroupKey, Vec<Interpreter>>
    pair_idx,                   \* position of the loop over install_only_interpreters
    stream_idx,                 \* position of stream::iter(install_only_interpreters)
    in_progress_queue,          \* the futures buffer_unordered holds, a bag
    requests,                   \* the GET requests issued: who asked, for which URL
    started,                    \* the number of futures polled for the first time
    printed,                    \* the number of results printed (line 252)
    exit_code,                  \* -1 while running; 0, 1 (exit) or 101 (panic)
    archive,                    \* the stream handed to read_info_json_entry
    entries_read,               \* the items of archive it has pulled
    entry_result                \* what it returned

vars ==
    <<assets, pc, asset_idx, install_only_interpreters, groups, pair_idx, stream_idx,
      in_progress_queue, requests, started, printed, exit_code,
      archive, entries_read, entry_result>>

mainVars ==
    <<assets, pc, asset_idx, install_only_interpreters, groups, pair_idx, stream_idx,
      in_progress_queue, requests, started, printed, exit_code>>

entryVars == <<archive, entries_read, entry_result>>

NoGroups == [k \in {} |-> <<>>]

\* main up to the loop over release.assets, for the listing l
MainStarts(l) ==
    /\ assets = l
    /\ pc = "classify"
    /\ asset_idx = 1
    /\ install_only_interpreters = <<>>
    /\ groups = NoGroups
    /\ pair_idx = 1
    /\ stream_idx = 1
    /\ in_progress_queue = EmptyBag
    /\ requests = {}
    /\ started = 0
    /\ printed = 0
    /\ exit_code = -1

Init ==
    /\ \E l \in Listings : MainStarts(l)
    /\ archive = <<>>
    /\ entries_read = 0
    /\ entry_result = "none"

(***************************************************************************)
(* main, lines 149-176: classification and grouping.                       *)
(***************************************************************************)
Classifying == pc = "classify" /\ asset_idx <= Len(assets)

restOfClassify == <<assets, pair_idx, stream_idx, in_progress_queue, requests, started, printed>>

\* the name has no archive suffix: the asset is passed over
SkipAsset ==
    /\ Classifying
    /\ ~EndsWithArchiveSuffix(assets[asset_idx].name)
    /\ asset_idx' = asset_idx + 1
    /\ UNCHANGED <<pc, install_only_interpreters, groups, exit_code, restOfClassify, entryVars>>

\* parse_asset fails: eprintln and std::process::exit(1)
ExitOnUnsupported ==
    /\ Classifying
    /\ EndsWithArchiveSuffix(assets[asset_idx].name)
    /\ ~parse_asset(assets[asset_idx]).ok
    /\ pc' = "exited"
    /\ exit_code' = 1
    /\ UNCHANGED <<asset_idx, install_only_interpreters, groups, restOfClassify, entryVars>>

PushInstallOnly ==
    /\ Classifying
    /\ EndsWithArchiveSuffix(assets[asset_idx].name)
    /\ LET r == parse_asset(assets[asset_idx]) IN
       /\ r.ok
       /\ r.value.flavor = "InstallOnly"
       /\ install_only_interpreters' = Append(install_only_interpreters, r.value)
    /\ asset_idx' = asset_idx + 1
    /\ UNCHANGED <<pc, groups, exit_code, restOfClassify, entryVars>>

\* groups.insert(group_key, vec![interpreter]) or push onto the existing group
InsertIntoGroup(g, interpreter) ==
    LET group_key == GroupKey(interpreter) IN
    IF group_key \notin DOMAIN g \/ Len(g[group_key]) = 0
    THEN [k \in DOMAIN g \cup {group_key} |->
            IF k = group_key THEN <<interpreter>> ELSE g[k]]
    ELSE [g EXCEPT ![group_key] = Append(@, interpreter)]

PushFull ==
    /\ Classifying
    /\ EndsWithArchiveSuffix(assets[asset_idx].name)
    /\ LET r == parse_asset(assets[asset_idx]) IN
       /\ r.ok
       /\ r.value.flavor = "Full"
       /\ groups' = InsertIntoGroup(groups, r.value)
    /\ asset_idx' = asset_idx + 1
    /\ UNCHANGED <<pc, install_only_interpreters, exit_code, restOfClassify, entryVars>>

\* the loop over release.assets is over
EndClassify ==
    /\ pc = "classify"
    /\ asset_idx > Len(assets)
    /\ pc' = "pair"
    /\ UNCHANGED <<asset_idx, install_only_interpreters, groups, exit_code, restOfClassify,
                   entryVars>>

(***************************************************************************)
(* main, lines 178-227: every install_only interpreter gets the best full  *)
(* interpreter of its group.                                               *)
(***************************************************************************)
Pairing == pc = "pair" /\ pair_idx <= Len(install_only_interpreters)

restOfPair == <<assets, asset_idx, stream_idx, in_progress_queue, requests, started, printed>>

\* groups.get_mut(&group_key).unwrap() on a key the map does not hold, or the
\* comparator's unwrap on an unknown config
PairPanics ==
    LET group_key == GroupKey(install_only_interpreters[pair_idx]) IN
    IF group_key \notin DOMAIN groups THEN TRUE ELSE SortPanics(groups[group_key])

PanicInPair ==
    /\ Pairing
    /\ PairPanics
    /\ pc' = "panicked"
    /\ exit_code' = 101
    /\ UNCHANGED <<install_only_interpreters, groups, pair_idx, restOfPair, entryVars>>

\* the group is sorted in place and its first element is cloned
SelectBest ==
    /\ Pairing
    /\ ~PairPanics
    /\ LET group_key == GroupKey(install_only_interpreters[pair_idx])
           value == sort_by(groups[group_key])
           best_match == value[1]
       IN  /\ groups' = [groups EXCEPT ![group_key] = value]
           /\ install_only_interpreters' =
                 [install_only_interpreters EXCEPT
                     ![pair_idx].interpreter_implemented = Some(best_match)]
    /\ pair_idx' = pair_idx + 1
    /\ UNCHANGED <<pc, exit_code, restOfPair, entryVars>>

EndPair ==
    /\ pc = "pair"
    /\ pair_idx > Len(install_only_interpreters)
    /\ pc' = "extract"
    /\ UNCHANGED <<install_only_interpreters, groups, pair_idx, exit_code, restOfPair,
                   entryVars>>

(***************************************************************************)
(* main, lines 244-256: the extractions, at most BufferLimit at a time.    *)
(* buffer_unordered first pulls futures from the stream until its queue    *)
(* holds BufferLimit of them or the stream is over, and only then polls    *)
(* the queue.  A future that panics unwinds through main: the process ends *)
(* and the futures left in the queue are dropped where they are.           *)
(***************************************************************************)
Future(interpreter, state, pulled) ==
    [interpreter |-> interpreter, state |-> state, pulled |-> pulled]

Without(queue, f) == queue (-) SetToBag({f})

With(queue, f) == queue (+) SetToBag({f})

StreamHasNext == stream_idx <= Len(install_only_interpreters)

\* while in_progress_queue.len() < max (poll_next of BufferUnordered)
QueueHasRoom_off_by_one == BagCardinality(in_progress_queue) <= BufferLimit

QueueHasRoom == BagCardinality(in_progress_queue) < BufferLimit

CanPoll == pc = "extract" /\ ~(QueueHasRoom /\ StreamHasNext)

\* interpreter.interpreter_implemented.clone().unwrap().url
RequestUrl_own(interpreter) == interpreter.url

RequestUrl(interpreter) == interpreter.interpreter_implemented[1].url

restOfExtract == <<assets, asset_idx, install_only_interpreters, groups, pair_idx>>

\* the closure of map makes the future of the next interpreter; it has not run yet
SpawnFuture ==
    /\ pc = "extract"
    /\ QueueHasRoom
    /\ StreamHasNext
    /\ in_progress_queue' =
          With(in_progress_queue, Future(install_only_interpreters[stream_idx], "created", 0))
    /\ stream_idx' = stream_idx + 1
    /\ UNCHANGED <<pc, requests, started, printed, exit_code, restOfExtract, entryVars>>

Request(f) == [interpreter |-> f.interpreter, url |-> RequestUrl(f.interpreter)]

\* first poll of a future: read_info_json issues the GET and gets a response
SendRequest ==
    /\ CanPoll
    /\ \E f \in BagToSet(in_progress_queue) :
          /\ f.state = "created"
          /\ f.interpreter.interpreter_implemented # None
          /\ requests' = requests \cup {Request(f)}
          /\ in_progress_queue' =
                With(Without(in_progress_queue, f), Future(f.interpreter, "reading", 0))
    /\ started' = started + 1
    /\ UNCHANGED <<pc, stream_idx, printed, exit_code, restOfExtract, entryVars>>

\* first poll of a future: the unwrap of line 248 finds None, or the GET fails
\* and the unwrap of line 263 panics
PanicOnSend ==
    /\ CanPoll
    /\ \E f \in BagToSet(in_progress_queue) :
          /\ f.state = "created"
          /\ requests' =
                IF f.interpreter.interpreter_implemented = None THEN requests
                ELSE requests \cup {Request(f)}
          /\ in_progress_queue' = Without(in_progress_queue, f)
    /\ started' = started + 1
    /\ pc' = "panicked"
    /\ exit_code' = 101
    /\ UNCHANGED <<stream_idx, printed, restOfExtract, entryVars>>

\* the entry pulled is not the one looked for: the loop goes on
ReadOtherEntry ==
    /\ CanPoll
    /\ \E f \in BagToSet(in_progress_queue), item \in StreamItems :
          /\ f.state = "reading"
          /\ f.pulled < MaxEntries
          /\ ExamineEntry(item) = "next"
          /\ in_progress_queue' =
                With(Without(in_progress_queue, f),
                     Future(f.interpreter, "reading", f.pulled + 1))
    /\ UNCHANGED <<pc, stream_idx, requests, started, printed, exit_code, restOfExtract,
                   entryVars>>

\* the entry is found and parsed: Ok(data), the future prints it and is done
ReadInfo ==
    /\ CanPoll
    /\ \E f \in BagToSet(in_progress_queue), item \in StreamItems :
          /\ f.state = "reading"
          /\ f.pulled < MaxEntries
          /\ ExamineEntry(item) = "Ok"
          /\ in_progress_queue' = Without(in_progress_queue, f)
    /\ printed' = printed + 1
    /\ UNCHANGED <<pc, stream_idx, requests, started, exit_code, restOfExtract, entryVars>>

\* an unwrap inside read_info_json_entry panics: a stream error (line 285) or
\* a document serde_json rejects (line 294)
PanicInRead ==
    /\ CanPoll
    /\ \E f \in BagToSet(in_progress_queue), item \in StreamItems :
          /\ f.state = "reading"
          /\ f.pulled < MaxEntries
          /\ ExamineEntry(item) \in {"panic_entry", "panic_json"}
          /\ in_progress_queue' = Without(in_progress_queue, f)
    /\ pc' = "panicked"
    /\ exit_code' = 101
    /\ UNCHANGED <<stream_idx, requests, started, printed, restOfExtract, entryVars>>

\* the stream ends: Err("Could not find PYTHON.json"), which line 251 unwraps
PanicOnNotFound ==
    /\ CanPoll
    /\ \E f \in BagToSet(in_progress_queue) :
          /\ f.state = "reading"
          /\ in_progress_queue' = Without(in_progress_queue, f)
    /\ pc' = "panicked"
    /\ exit_code' = 101
    /\ UNCHANGED <<stream_idx, requests, started, printed, restOfExtract, entryVars>>

\* the stream is over and the queue is empty: for_each ends and main returns
Return ==
    /\ pc = "extract"
    /\ ~StreamHasNext
    /\ in_progress_queue = EmptyBag
    /\ pc' = "returned"
    /\ exit_code' = 0
    /\ UNCHANGED <<stream_idx, in_progress_queue, requests, started, printed, restOfExtract,
                   entryVars>>

Next ==
    \/ SkipAsset
    \/ ExitOnUnsupported
    \/ PushInstallOnly
    \/ PushFull
    \/ EndClassify
    \/ PanicInPair
    \/ SelectBest
    \/ EndPair
    \/ SpawnFuture
    \/ SendRequest
    \/ PanicOnSend
    \/ ReadOtherEntry
    \/ ReadInfo
    \/ PanicInRead
    \/ PanicOnNotFound
    \/ Return

Spec == Init /\ [][Next]_vars

(***************************************************************************)
(* read_info_json_entry on its own, lines 274-299, over a whole archive.   *)
(***************************************************************************)
Archives == UNION { [1..n -> StreamItems] : n \in 0..MaxArchive }

InitEntry ==
    /\ MainStarts(<<>>)
    /\ archive \in Archives
    /\ entries_read = 0
    /\ entry_result = "running"

\* pinned.next().await yields the next item of the archive
Pulling == entry_result = "running" /\ entries_read < Len(archive)

EntryNext ==
    /\ Pulling
    /\ ExamineEntry(archive[entries_read + 1]) = "next"
    /\ entries_read' = entries_read + 1
    /\ UNCHANGED <<archive, entry_result, mainVars>>

EntryReturns ==
    /\ Pulling
    /\ ExamineEntry(archive[entries_read + 1]) # "next"
    /\ entries_read' = entries_read + 1
    /\ entry_result' = ExamineEntry(archive[entries_read + 1])
    /\ UNCHANGED <<archive, mainVars>>

\* the loop ends: Err(anyhow!("Could not find PYTHON.json"))
EntryNotFound ==
    /\ entry_result = "running"
    /\ entries_read = Len(archive)
    /\ entry_result' = "Err"
    /\ UNCHANGED <<archive, entries_read, mainVars>>

NextEntry == EntryNext \/ EntryReturns \/ EntryNotFound

SpecEntry == InitEntry /\ [][NextEntry]_vars

(***************************************************************************)
(* Properties.                                                             *)
(***************************************************************************)
TargetEntryPath == "python/PYTHON.json"

ArchiveSuffixes == {".tar.gz", ".tar.zst"}

ClosedConfigs == {<<"pgo", "+", "lto">>, <<"pgo">>, <<"lto">>, <<"noopt">>, <<"debug">>}

\* ConfigRank, best first
ConfigRank == <<<<"pgo", "+", "lto">>, <<"pgo">>, <<"lto">>, <<"noopt">>, <<>>, <<"debug">>>>

RankOf(config) ==
    IF \E r \in 1..Len(ConfigRank) : ConfigRank[r] = config
    THEN CHOOSE r \in 1..Len(ConfigRank) : ConfigRank[r] = config
    ELSE Len(ConfigRank) + 1

SameGroup(a, b) ==
    /\ a.implementation = b.implementation
    /\ a.python_version = b.python_version
    /\ a.github_release = b.github_release
    /\ a.triple = b.triple

Listed == { assets[k] : k \in 1..Len(assets) }

HasArchiveSuffix(a) == a.name # <<>> /\ a.name[Len(a.name)] \in ArchiveSuffixes

\* the Full descriptors of the listing
FullDescriptors ==
    LET parsed == { parse_asset(a) : a \in { x \in Listed : HasArchiveSuffix(x) } }
    IN  { r.value : r \in { x \in parsed : IF x.ok THEN x.value.flavor = "Full" ELSE FALSE } }

FullsIn(fulls, standalone) == { d \in fulls : SameGroup(d, standalone) }

\* the positions of the listing whose name has an archive suffix and matches
\* neither grammar
Unsupported ==
    LET bad == { a \in Listed : HasArchiveSuffix(a) /\ ~parse_asset(a).ok }
    IN  { k \in 1..Len(assets) : assets[k] \in bad }

Least(S) == CHOOSE k \in S : \A q \in S : k <= q

\* the run ended in its extraction phase
EndedInExtraction ==
    \/ pc = "returned"
    \/ pc = "panicked" /\ pair_idx > Len(install_only_interpreters)

\* extractions started and not finished
InFlight == started - printed - (IF pc = "panicked" /\ started > 0 THEN 1 ELSE 0)

\* C1: a failed extraction does not keep the other extractions from running to
\* completion: when the run has ended in its extraction phase, no extraction is
\* left unstarted or unfinished, and the run ends with a failure status when an
\* extraction failed.
C1_FailureLeavesOthersToFinish ==
    EndedInExtraction =>
        /\ ~StreamHasNext
        /\ in_progress_queue = EmptyBag
        /\ started = Len(install_only_interpreters)
        /\ (printed < started => exit_code # 0)

\* C2: at every point of the run at most 20 extractions are in flight, and the
\* queue of buffer_unordered never holds more than 20 futures, so that an
\* extraction beyond the bound starts only after one in flight has finished.
C2_AtMostTwentyInFlight ==
    /\ InFlight <= 20
    /\ BagCardinality(in_progress_queue) <= 20
    /\ (StreamHasNext /\ pc = "extract" /\ started >= 20 => printed >= started - 20)

\* 20 extractions are in flight and an install_only interpreter still waits
C2_Witness ==
    /\ pc = "extract"
    /\ InFlight = 20
    /\ StreamHasNext

\* C3: when a listed name with an archive suffix matches neither grammar, the
\* run never gets past the first such name, ends there with exit status 1, and
\* starts no extraction.
C3_UnsupportedNameAborts ==
    LET unsupported == Unsupported IN
    unsupported # {} =>
        /\ pc \in {"classify", "exited"}
        /\ asset_idx <= Least(unsupported)
        /\ (pc = "exited" => exit_code = 1 /\ asset_idx = Least(unsupported))
        /\ started = 0
        /\ requests = {}
        /\ in_progress_queue = EmptyBag

\* the run exited at an unsupported name listed third, after an install_only asset
C3_Witness ==
    /\ pc = "exited"
    /\ exit_code = 1
    /\ asset_idx = 3
    /\ install_only_interpreters # <<>>

\* C4: the full interpreter selected for an install_only interpreter is a Full
\* descriptor of its group in the listing, and no Full descriptor of that group
\* ranks before it under ConfigRank, whatever the order of the listing.
C4_BestRanksLowest ==
    LET fulls == FullDescriptors IN
    \A standalone \in { install_only_interpreters[k] : k \in 1..Len(install_only_interpreters) } :
        standalone.interpreter_implemented # None =>
            LET best == standalone.interpreter_implemented[1]
                group == FullsIn(fulls, standalone)
            IN  /\ \E d \in group : d.config = best.config /\ d.url = best.url
                /\ \A d \in group : RankOf(best.config) <= RankOf(d.config)

\* the best of three Full descriptors of a group is the one listed last
C4_Witness ==
    /\ Len(assets) = 3
    /\ assets[1] = LtoLinux
    /\ assets[2] = IoLinux
    /\ assets[3] = PgoLinux
    /\ Len(install_only_interpreters) = 1
    /\ install_only_interpreters[1].interpreter_implemented # None
    /\ install_only_interpreters[1].interpreter_implemented[1].url = "url/linux-pgo"

\* C5: every extraction is issued for an install_only interpreter against the
\* URL of the full interpreter selected for it, which is a Full descriptor of
\* the listing with the same GroupKey, and never against its own URL.
C5_RequestsGoToSelectedFull ==
    LET fulls == FullDescriptors IN
    \A r \in requests :
        /\ r.interpreter.flavor = "InstallOnly"
        /\ r.url # r.interpreter.url
        /\ r.interpreter.interpreter_implemented # None
        /\ r.url = r.interpreter.interpreter_implemented[1].url
        /\ \E d \in FullsIn(fulls, r.interpreter) : d.url = r.url

\* a darwin extraction was issued in a run whose listing also holds a linux archive
C5_Witness ==
    /\ \E r \in requests : r.url = "url/darwin-debug"
    /\ \E k \in 1..Len(assets) : assets[k] = PgoLinux

\* the install_only interpreters whose group holds no Full descriptor
Orphans ==
    LET fulls == FullDescriptors IN
    { k \in 1..Len(install_only_interpreters) :
        FullsIn(fulls, install_only_interpreters[k]) = {} }

\* C6: when an install_only interpreter has no Full descriptor with its
\* GroupKey, pairing stops at the first such interpreter with a fatal failure:
\* the run never gets past it, it is never paired, and no extraction starts.
C6_MissingGroupIsFatal ==
    LET orphans == Orphans IN
    /\ \A k \in orphans : install_only_interpreters[k].interpreter_implemented = None
    /\ (pc \notin {"classify", "exited"} /\ orphans # {}) =>
          /\ pc \in {"pair", "panicked"}
          /\ pair_idx <= Least(orphans)
          /\ (pc = "panicked" => exit_code = 101 /\ pair_idx = Least(orphans))
          /\ started = 0
          /\ requests = {}
          /\ in_progress_queue = EmptyBag

\* pairing panicked at a darwin interpreter listed with linux archives only
C6_Witness ==
    /\ pc = "panicked"
    /\ pair_idx = 2
    /\ Len(install_only_interpreters) = 2
    /\ FullDescriptors # {}
    /\ install_only_interpreters[1].interpreter_implemented # None
    /\ install_only_interpreters[2].interpreter_implemented = None

\* the positions of the archive that hold the entry python/PYTHON.json
Matches ==
    { k \in 1..Len(archive) :
        archive[k].kind = "entry" /\ archive[k].path = TargetEntryPath }

StreamErrors == { k \in 1..Len(archive) : archive[k].kind = "error" }

\* C7: read_info_json_entry pulls the entries in archive order, returns at the
\* first entry whose path is exactly python/PYTHON.json and pulls nothing after
\* it; when the stream ends without a match it returns the not-found error.
C7_FirstMatchWins ==
    /\ entries_read <= Len(archive)
    /\ (entry_result = "running" => \A k \in Matches : k > entries_read)
    /\ (entry_result \in {"Ok", "panic_json"} =>
           Matches # {} /\ entries_read = Least(Matches))
    /\ (entry_result = "Err" => Matches = {} /\ entries_read = Len(archive))
    /\ (entries_read = Len(archive) /\ Matches = {} /\ StreamErrors = {}
           /\ entry_result # "running" => entry_result = "Err")

\* the document was returned from the second of three entries
C7_Witness ==
    /\ entry_result = "Ok"
    /\ Len(archive) = 3
    /\ entries_read = 2
    /\ archive[3].kind = "entry"

\* the call stopped at an entry python/PYTHON.json whose document is malformed
MalformedMatched ==
    /\ entry_result # "running"
    /\ entries_read >= 1
    /\ archive[entries_read].kind = "entry"
    /\ archive[entries_read].path = TargetEntryPath
    /\ archive[entries_read].payload # "{}"

\* C8: a malformed document at the matched entry makes the extraction return an
\* error value of its own, MetadataParseError, which is neither the not-found
\* error nor a panic that takes the run down.
C8_MalformedIsAnErrorValue ==
    MalformedMatched => entry_result = "MetadataParseError"

\* C9: every descriptor classification produced has an empty buildConfig if
\* and only if it is install_only, the install_only vector holds install_only
\* descriptors only, and every member of a group is a Full descriptor whose
\* buildConfig is in the closed set, so that ranking never meets an unknown or
\* empty buildConfig.
C9_ConfigMatchesFlavor ==
    /\ \A k \in 1..Len(install_only_interpreters) :
          /\ install_only_interpreters[k].flavor = "InstallOnly"
          /\ install_only_interpreters[k].config = <<>>
    /\ \A g \in DOMAIN groups : \A k \in 1..Len(groups[g]) :
          /\ groups[g][k].flavor = "Full"
          /\ groups[g][k].config \in ClosedConfigs
          /\ groups[g][k].config # <<>>

\* a group of two, one of them pgo+lto, next to an install_only descriptor
C9_Witness ==
    /\ install_only_interpreters # <<>>
    /\ \E g \in DOMAIN groups :
          /\ Len(groups[g]) = 2
          /\ \E k \in 1..2 : groups[g][k].config = <<"pgo", "+", "lto">>

\* C10: in a run whose classification and pairing succeeded, exactly one
\* extraction is started per install_only interpreter, every install_only
\* interpreter has its full interpreter set before the first extraction
\* starts, and every extraction goes to a selected full interpreter.
C10_OneExtractionPerStandalone ==
    /\ started <= Len(install_only_interpreters)
    /\ (started > 0 =>
           \A k \in 1..Len(install_only_interpreters) :
               install_only_interpreters[k].interpreter_implemented # None)
    /\ \A r \in requests :
           \E k \in 1..Len(install_only_interpreters) :
               /\ install_only_interpreters[k].interpreter_implemented # None
               /\ r.url = install_only_interpreters[k].interpreter_implemented[1].url
    /\ (EndedInExtraction => started = Len(install_only_interpreters))

====
